---- MODULE Spec2Model ----
(***************************************************************************)
(* Ownership-scoped data access layer of the flashcard application: the    *)
(* decks and cards tables, the query functions of db/queries and the       *)
(* server actions that call them.  Every request runs as a process; each   *)
(* awaited database statement is one atomic step of the store, and the     *)
(* code that runs between two awaits belongs to the step that resumes it.  *)
(***************************************************************************)
EXTENDS Integers, Sequences, FiniteSets, TLC

\* ------------------------------------------------------------------ bounds
MaxDeckId == 2
MaxCardId == 1
MaxQuotaDeckId == 4
MaxClock == 1
MaxRaceDeckId == 5
MaxBatch == 2
MaxGenDeckId == 1
MaxGenCardId == 3
MaxClockDeckId == 1
MaxStudyCards == 3
MaxMarks == 4
MaxPageCards == 2

\* ------------------------------------------------------- program constants
FREE_DECK_LIMIT == 3
MAX_DECK_NAME == 255
MAX_DESCRIPTION == 1000
MAX_CARD_TEXT == 1000

\* --------------------------------------------------------------- input sets
Users == {"u1", "u2"}
\* two requests at a time: every race of the data layer is between two requests
Procs == {"p1", "p2"}
DeckIds == 1..MaxDeckId
QuotaDeckIds == 1..MaxQuotaDeckId
RaceDeckIds == 1..MaxRaceDeckId
CardIds == 1..MaxCardId

Undefined == [nil |-> "undefined"]
Null == [nil |-> "null"]
\* a value of a nullable text column or of an optional string field
Str(s) == [str |-> s]
\* the rows a select returns, as one value
Rows(S) == [rows |-> S]

DeckNames == {"", "a", "b"}
DeckDescriptions == {Undefined, Str("x")}
NoDescription == {Undefined}
QuotaDeckNames == {"", "a"}
CardFronts == {"", "q", "r"}
CardBacks == {"", "s"}
\* what the card generator may return: candidates, and batches of them
GenCandidates == [front : {"", "q"}, back : {"s"}]
Batches == UNION {[1..n -> GenCandidates] : n \in 1..MaxBatch}

\* ------------------------------------------------------------------- state
VARIABLES
  decks,      \* rows of decksTable
  cards,      \* rows of cardsTable
  deckSeq,    \* identity generator of decksTable.id (last value handed out)
  cardSeq,    \* identity generator of cardsTable.id
  now,        \* wall clock read by defaultNow() and new Date()
  unlimited,  \* users for which has({feature: 'unlimited_decks'}) is true:
              \* u1 is on the free plan, u2 holds the feature
  proc,       \* per request in flight: operation, arguments, locals, position
  resp,       \* the answer of the request that completed in the last step
  propCards,      \* FlashcardStudy: the cards prop, ids of the cards as loaded
  studyCards,     \* FlashcardStudy state: the cards in the order they are shown
  currentIndex,   \* index into studyCards, from 0
  isFlipped,      \* the back of the current card is shown
  isShuffled,
  correctCount,
  incorrectCount

store == <<decks, cards, deckSeq, cardSeq>>
study == <<propCards, studyCards, currentIndex, isFlipped, isShuffled,
           correctCount, incorrectCount>>
vars == <<decks, cards, deckSeq, cardSeq, now, unlimited, proc, resp, study>>

\* ---------------------------------------------------------------- messages
DeckNotFound == "Deck not found or unauthorized"
CardNotFound == "Card not found or unauthorized"
DeckLimitReached == "Deck limit reached. Upgrade to Pro for unlimited decks."
ForeignKeyViolation == "violates foreign key constraint"
UndefinedDeckId == "Cannot read properties of undefined (reading 'deckId')"
AiProOnly == "AI flashcard generation is only available for Pro subscribers."
NeedsDescription ==
  "Please add a description to your deck first. AI needs context to generate relevant flashcards."
AiBusy == "AI service is temporarily busy. Please try again in a moment."
NotFound == "NEXT_HTTP_ERROR_FALLBACK;404"

\* ------------------------------------------------------ outcomes of a call
\* what the query function handed back (or threw) ...
NoRet == [kind |-> "none", msg |-> ""]
RetRow == [kind |-> "row", msg |-> ""]
RetRows == [kind |-> "rows", msg |-> ""]
RetNull == [kind |-> "null", msg |-> ""]
RetUndefined == [kind |-> "undefined", msg |-> ""]
RetVoid == [kind |-> "void", msg |-> ""]
\* what the study page rendered: the study component, or the no-cards notice
RetSession == [kind |-> "session", msg |-> ""]
RetNoCards == [kind |-> "noCards", msg |-> ""]
Throw(m) == [kind |-> "throw", msg |-> m]
\* a row-valued expression of the code: the row, null or undefined
RetValue(v) ==
  IF v = Undefined THEN RetUndefined ELSE IF v = Null THEN RetNull ELSE RetRow

\* ... and what the server action answered
NoRes == [success |-> "none", error |-> ""]
Success == [success |-> "true", error |-> ""]
Failure(m) == [success |-> "false", error |-> m]

\* ------------------------------------------------------------ sql helpers
\* const [row] = await <select | insert | update ... returning>
First(rows) == IF rows = {} THEN Undefined ELSE CHOOSE r \in rows : TRUE

\* a column value as stored: an omitted (undefined) value becomes NULL
ToSql(v) == IF v = Undefined THEN Null ELSE v

\* ---------------------------------------------------------- deck queries
GetUserDecks(D, userId) == {d \in D : d.userId = userId}

GetUserDeckCount(D, userId) == Cardinality({d \in D : d.userId = userId})

\* slip: the userId condition left out of the where clause
GetDeckByIdAnyOwner(D, deckId, userId) ==
  LET deck == First({d \in D : d.id = deckId})
  IN  IF deck = Undefined THEN Null ELSE deck

GetDeckById(D, deckId, userId) ==
  LET deck == First({d \in D : d.id = deckId /\ d.userId = userId})
  IN  IF deck = Undefined THEN Null ELSE deck

\* the rows of getDeckCards' second statement
SelectDeckCards(C, deckId) == {c \in C : c.deckId = deckId}

\* slip: the ownership check left out of getDeckCards
GetDeckCardsUnchecked(D, C, deckId, userId) == Rows({c \in C : c.deckId = deckId})

\* getDeckCards as one statement-by-statement evaluation on a single snapshot
GetDeckCards(D, C, deckId, userId) ==
  IF GetDeckById(D, deckId, userId) = Null THEN Null ELSE Rows(SelectDeckCards(C, deckId))

\* slip: the description left out of the inserted values
NewDeckNoDescription(id, userId, name, description, t) ==
  [id |-> id, userId |-> userId, name |-> name, description |-> Null,
   createdAt |-> t, updatedAt |-> t]

\* insert into decks ... returning
NewDeck(id, userId, name, description, t) ==
  [id |-> id, userId |-> userId, name |-> name, description |-> ToSql(description),
   createdAt |-> t, updatedAt |-> t]

\* slip: the update also hands the deck to another user
UpdateDecksReassigning(D, deckId, name, description, t) ==
  {IF d.id = deckId
     THEN [d EXCEPT !.name = name, !.userId = "u2", !.updatedAt = t]
     ELSE d : d \in D}

\* update decks set ... where id = deckId; an undefined value leaves its column
UpdateDecks(D, deckId, name, description, t) ==
  {IF d.id = deckId
     THEN [d EXCEPT !.name = name,
                    !.description = IF description = Undefined THEN @ ELSE description,
                    !.updatedAt = t]
     ELSE d : d \in D}

\* delete from decks where id = deckId
DeleteDecks(D, deckId) == {d \in D : d.id # deckId}

\* slip: the foreign key declared without onDelete: "cascade"
CascadeCardsOff(C, D) == C

\* the foreign key of cards.deckId: on delete cascade
CascadeCards(C, D) == {c \in C : \E d \in D : d.id = c.deckId}

\* slip: deckId declared without references()
ForeignKeyUnchecked(D, deckId) == TRUE

\* the foreign key of cards.deckId, checked when a card row is inserted
ForeignKeyHolds(D, deckId) == \E d \in D : d.id = deckId

\* ---------------------------------------------------------- card queries
\* cards left join decks on cards.deckId = decks.id
CardsJoinDecks(C, D) ==
  {j \in [card : C, deck : D \cup {Null}] :
     IF j.deck = Null
       THEN ~\E d \in D : d.id = j.card.deckId
       ELSE j.deck.id = j.card.deckId}

\* slip: the userId condition left out of the join's where clause
GetCardByIdAnyOwner(C, D, cardId, userId) ==
  LET first == First({j \in CardsJoinDecks(C, D) : j.card.id = cardId})
  IN  IF first = Undefined THEN Null ELSE first.card

GetCardById(C, D, cardId, userId) ==
  LET result == {j \in CardsJoinDecks(C, D) :
                   /\ j.card.id = cardId
                   /\ j.deck # Null
                   /\ j.deck.userId = userId}
      first == First(result)
  IN  IF first = Undefined THEN Null ELSE first.card

GetAllUserCards(C, D, userId) ==
  {j.card : j \in {k \in CardsJoinDecks(C, D) : k.deck # Null /\ k.deck.userId = userId}}

NewCard(id, deckId, front, back, t) ==
  [id |-> id, deckId |-> deckId, front |-> front, back |-> back,
   createdAt |-> t, updatedAt |-> t]

UpdateCards(C, cardId, front, back, t) ==
  {IF c.id = cardId
     THEN [c EXCEPT !.front = front, !.back = back, !.updatedAt = t]
     ELSE c : c \in C}

DeleteCards(C, cardId) == {c \in C : c.id # cardId}

DeleteCardsOfDeck(C, deckId) == {c \in C : c.deckId # deckId}

\* ------------------------------------------------------------- validation
\* first issue of createDeckSchema / updateDeckSchema, "" when the input parses
DeckSchemaIssue(name, description) ==
  IF Len(name) < 1 THEN "Deck name is required"
  ELSE IF Len(name) > MAX_DECK_NAME THEN "Deck name is too long"
  ELSE IF description # Undefined /\ Len(description.str) > MAX_DESCRIPTION
    THEN "Description is too long"
  ELSE ""

\* first issue of createCardSchema / updateCardSchema
CardSchemaIssue(front, back) ==
  IF Len(front) < 1 THEN "Question is required"
  ELSE IF Len(front) > MAX_CARD_TEXT THEN "Question is too long"
  ELSE IF Len(back) < 1 THEN "Answer is required"
  ELSE IF Len(back) > MAX_CARD_TEXT THEN "Answer is too long"
  ELSE ""

\* ------------------------------------------------------------------ quota
\* slip: > for >=
QuotaAllowsOffByOne(hasUnlimitedDecks, deckCount) ==
  ~(~hasUnlimitedDecks /\ deckCount > FREE_DECK_LIMIT)

\* createDeck: the insert is reached unless (!hasUnlimitedDecks && deckCount >= 3)
QuotaAllows(hasUnlimitedDecks, deckCount) ==
  ~(~hasUnlimitedDecks /\ deckCount >= FREE_DECK_LIMIT)

\* dashboard: const canCreateMore = hasUnlimitedDecks || deckCount < 3
CanCreateMore(hasUnlimitedDecks, deckCount) ==
  hasUnlimitedDecks \/ deckCount < FREE_DECK_LIMIT

\* --------------------------------------------------------------- processes
IdleProc ==
  [pc |-> "idle", op |-> "none", user |-> "", id |-> 0, a |-> "", b |-> "",
   desc |-> Undefined, ts |-> 0, batch |-> <<>>]

\* a call whose first statement has run and that awaits its next one at pc
Call(op, userId, id, a, b, desc, pc, ts) ==
  [pc |-> pc, op |-> op, user |-> userId, id |-> id, a |-> a, b |-> b,
   desc |-> desc, ts |-> ts, batch |-> <<>>]

NoResp == [op |-> "none", user |-> "", id |-> 0, ret |-> NoRet, res |-> NoRes]
Resp(op, userId, id, ret, res) ==
  [op |-> op, user |-> userId, id |-> id, ret |-> ret, res |-> res]

At(p, op, pc) == proc[p].op = op /\ proc[p].pc = pc

\* the call of p goes on to its next statement
Proceed(p, call) == proc' = [proc EXCEPT ![p] = call] /\ resp' = NoResp

\* the call answers in the step that starts it
Answer(op, userId, id, ret, res) ==
  proc' = proc /\ resp' = Resp(op, userId, id, ret, res)

\* the call of p answers after its last statement
Finish(p, ret, res) ==
  /\ proc' = [proc EXCEPT ![p] = IdleProc]
  /\ resp' = Resp(proc[p].op, proc[p].user, proc[p].id, ret, res)

\* requests of an operation that have started and not yet answered
InFlight(op) == Cardinality({q \in Procs : proc[q].op = op})

\* useState(...) of FlashcardStudy over the cards prop
Mounted(cardsProp) ==
  /\ propCards = cardsProp
  /\ studyCards = cardsProp
  /\ currentIndex = 0
  /\ isFlipped = FALSE
  /\ isShuffled = FALSE
  /\ correctCount = 0
  /\ incorrectCount = 0

\* an empty store, no request in flight, no study page open
InitStore ==
  /\ decks = {}
  /\ cards = {}
  /\ deckSeq = 0
  /\ cardSeq = 0
  /\ now = 0
  /\ unlimited = {"u2"}
  /\ proc = [p \in Procs |-> IdleProc]
  /\ resp = NoResp

Init == InitStore /\ Mounted(<<>>)

\* time passes between two statements
Tick ==
  /\ now < MaxClock
  /\ now' = now + 1
  /\ resp' = NoResp
  /\ UNCHANGED <<store, unlimited, proc, study>>

\* ------------------------------------------------------------ getDeckCards
\* the ownership select, then the select of the cards
GetDeckCardsCheck(p) ==
  /\ proc[p].pc = "idle"
  /\ \E u \in Users, id \in DeckIds :
       IF GetDeckById(decks, id, u) = Null
         THEN Answer("getDeckCards", u, id, RetNull, NoRes)
         ELSE Proceed(p, Call("getDeckCards", u, id, "", "", Undefined, "cards", 0))
  /\ UNCHANGED <<store, now, unlimited, study>>

GetDeckCardsSelect(p) ==
  /\ At(p, "getDeckCards", "cards")
  /\ Finish(p, RetRows, NoRes)
  /\ UNCHANGED <<store, now, unlimited, study>>

\* ------------------------------------------------------------- createDeck
\* slip: the deck limit check left out
CreateDeckCallNoQuota(p, u, name, description, maxId) ==
  /\ proc[p].pc = "idle"
  /\ deckSeq + InFlight("createDeck") < maxId
  /\ IF DeckSchemaIssue(name, description) # ""
       THEN Answer("createDeck", u, 0, NoRet, Failure(DeckSchemaIssue(name, description)))
       ELSE Proceed(p, Call("createDeck", u, 0, name, "", description, "insert", 0))
  /\ UNCHANGED <<store, now, unlimited, study>>

\* auth, the quota check (one count statement for a user without the feature),
\* then the schema, then the insert is issued
CreateDeckCall(p, u, name, description, maxId) ==
  /\ proc[p].pc = "idle"
  /\ deckSeq + InFlight("createDeck") < maxId
  /\ LET hasUnlimitedDecks == u \in unlimited
         deckCount == GetUserDeckCount(decks, u)
         issue == DeckSchemaIssue(name, description)
     IN  IF ~QuotaAllows(hasUnlimitedDecks, deckCount)
           THEN Answer("createDeck", u, 0, NoRet, Failure(DeckLimitReached))
         ELSE IF issue # ""
           THEN Answer("createDeck", u, 0, NoRet, Failure(issue))
         ELSE Proceed(p, Call("createDeck", u, 0, name, "", description, "insert", 0))
  /\ UNCHANGED <<store, now, unlimited, study>>

CreateDeckBegin(p) ==
  \E u \in Users, name \in DeckNames, description \in NoDescription :
    CreateDeckCall(p, u, name, description, MaxDeckId)

\* createDeckForUser: insert ... returning
CreateDeckInsert(p) ==
  /\ At(p, "createDeck", "insert")
  /\ LET deck == NewDeck(deckSeq + 1, proc[p].user, proc[p].a, proc[p].desc, now)
     IN  /\ decks' = decks \cup {deck}
         /\ deckSeq' = deckSeq + 1
         /\ proc' = [proc EXCEPT ![p] = IdleProc]
         /\ resp' = Resp("createDeck", proc[p].user, deck.id, RetRow, Success)
  /\ UNCHANGED <<cards, cardSeq, now, unlimited, study>>

\* ------------------------------------------------------------- updateDeck
\* slip: a deck of another user answered differently from a missing deck
UpdateDeckCallLeaky(p, u, id, name, description) ==
  /\ proc[p].pc = "idle"
  /\ LET issue == DeckSchemaIssue(name, description)
         existing == GetDeckById(decks, id, u)
     IN  IF issue # "" THEN Answer("updateDeck", u, id, NoRet, Failure(issue))
         ELSE IF existing = Null /\ \E d \in decks : d.id = id
           THEN Answer("updateDeck", u, id, Throw("Unauthorized"), Failure("Unauthorized"))
         ELSE IF existing = Null
           THEN Answer("updateDeck", u, id, Throw(DeckNotFound), Failure(DeckNotFound))
         ELSE Proceed(p, Call("updateDeck", u, id, name, "", description, "write", now))
  /\ UNCHANGED <<store, now, unlimited, study>>

\* auth, the schema, then updateDeckForUser's ownership select; new Date() is
\* read when the update statement is built, as that select returns
UpdateDeckCall(p, u, id, name, description) ==
  /\ proc[p].pc = "idle"
  /\ LET issue == DeckSchemaIssue(name, description)
         existing == GetDeckById(decks, id, u)
     IN  IF issue # "" THEN Answer("updateDeck", u, id, NoRet, Failure(issue))
         ELSE IF existing = Null
           THEN Answer("updateDeck", u, id, Throw(DeckNotFound), Failure(DeckNotFound))
         ELSE Proceed(p, Call("updateDeck", u, id, name, "", description, "write", now))
  /\ UNCHANGED <<store, now, unlimited, study>>

UpdateDeckBegin(p) ==
  \E u \in Users, id \in DeckIds, name \in DeckNames, description \in NoDescription :
    UpdateDeckCall(p, u, id, name, description)

\* update decks set ... where id = deckId returning
UpdateDeckWrite(p) ==
  /\ At(p, "updateDeck", "write")
  /\ decks' = UpdateDecks(decks, proc[p].id, proc[p].a, proc[p].desc, proc[p].ts)
  /\ LET updated == First({d \in decks' : d.id = proc[p].id})
     IN  Finish(p, RetValue(updated), Success)
  /\ UNCHANGED <<cards, deckSeq, cardSeq, now, unlimited, study>>

\* ------------------------------------------------------------- deleteDeck
\* slip: the ownership check left out
DeleteDeckCallUnchecked(p, u, id) ==
  /\ proc[p].pc = "idle"
  /\ Proceed(p, Call("deleteDeck", u, id, "", "", Undefined, "write", 0))
  /\ UNCHANGED <<store, now, unlimited, study>>

DeleteDeckCall(p, u, id) ==
  /\ proc[p].pc = "idle"
  /\ IF GetDeckById(decks, id, u) = Null
       THEN Answer("deleteDeck", u, id, Throw(DeckNotFound), Failure(DeckNotFound))
       ELSE Proceed(p, Call("deleteDeck", u, id, "", "", Undefined, "write", 0))
  /\ UNCHANGED <<store, now, unlimited, study>>

DeleteDeckBegin(p) == \E u \in Users, id \in DeckIds : DeleteDeckCall(p, u, id)

\* delete from decks where id = deckId; the cards go with the deck
DeleteDeckWrite(p) ==
  /\ At(p, "deleteDeck", "write")
  /\ decks' = DeleteDecks(decks, proc[p].id)
  /\ cards' = CascadeCards(cards, decks')
  /\ Finish(p, RetVoid, Success)
  /\ UNCHANGED <<deckSeq, cardSeq, now, unlimited, study>>

\* ------------------------------------------------------------- createCard
\* auth, the schema, then createCardForDeck's ownership select
CreateCardCall(p, u, deckId, front, back) ==
  /\ proc[p].pc = "idle"
  /\ cardSeq + InFlight("createCard") < MaxCardId
  /\ LET issue == CardSchemaIssue(front, back)
         deck == GetDeckById(decks, deckId, u)
     IN  IF issue # "" THEN Answer("createCard", u, deckId, NoRet, Failure(issue))
         ELSE IF deck = Null
           THEN Answer("createCard", u, deckId, Throw(DeckNotFound), Failure(DeckNotFound))
         ELSE Proceed(p, Call("createCard", u, deckId, front, back, Undefined, "write", 0))
  /\ UNCHANGED <<store, now, unlimited, study>>

CreateCardBegin(p) ==
  \E u \in Users, deckId \in DeckIds, front \in CardFronts, back \in CardBacks :
    CreateCardCall(p, u, deckId, front, back)

\* insert into cards ... returning; the store checks the foreign key
CreateCardInsert(p) ==
  /\ At(p, "createCard", "write")
  /\ IF ForeignKeyHolds(decks, proc[p].id)
       THEN /\ cards' = cards \cup
                 {NewCard(cardSeq + 1, proc[p].id, proc[p].a, proc[p].b, now)}
            /\ cardSeq' = cardSeq + 1
            /\ Finish(p, RetRow, Success)
       ELSE /\ UNCHANGED <<cards, cardSeq>>
            /\ Finish(p, Throw(ForeignKeyViolation), Failure(ForeignKeyViolation))
  /\ UNCHANGED <<decks, deckSeq, now, unlimited, study>>

\* ------------------------------------------------------------- updateCard
\* auth, the schema, then updateCardForUser's ownership select
UpdateCardCall(p, u, id, front, back) ==
  /\ proc[p].pc = "idle"
  /\ LET issue == CardSchemaIssue(front, back)
         existing == GetCardById(cards, decks, id, u)
     IN  IF issue # "" THEN Answer("updateCard", u, id, NoRet, Failure(issue))
         ELSE IF existing = Null
           THEN Answer("updateCard", u, id, Throw(CardNotFound), Failure(CardNotFound))
         ELSE Proceed(p, Call("updateCard", u, id, front, back, Undefined, "write", now))
  /\ UNCHANGED <<store, now, unlimited, study>>

UpdateCardBegin(p) ==
  \E u \in Users, id \in CardIds, front \in CardFronts, back \in CardBacks :
    UpdateCardCall(p, u, id, front, back)

\* update cards set ... where id = cardId returning; the action then reads
\* updated.deckId for the path to revalidate
UpdateCardWrite(p) ==
  /\ At(p, "updateCard", "write")
  /\ cards' = UpdateCards(cards, proc[p].id, proc[p].a, proc[p].b, proc[p].ts)
  /\ LET updated == First({c \in cards' : c.id = proc[p].id})
     IN  Finish(p, RetValue(updated),
                IF updated = Undefined THEN Failure(UndefinedDeckId) ELSE Success)
  /\ UNCHANGED <<decks, deckSeq, cardSeq, now, unlimited, study>>

\* ------------------------------------------------------------- deleteCard
DeleteCardBegin(p) ==
  /\ proc[p].pc = "idle"
  /\ \E u \in Users, id \in CardIds :
       IF GetCardById(cards, decks, id, u) = Null
         THEN Answer("deleteCard", u, id, Throw(CardNotFound), Failure(CardNotFound))
         ELSE Proceed(p, Call("deleteCard", u, id, "", "", Undefined, "write", 0))
  /\ UNCHANGED <<store, now, unlimited, study>>

\* delete from cards where id = cardId; deleteCardForUser returns nothing and the
\* action then reads deleted.deckId
DeleteCardWrite(p) ==
  /\ At(p, "deleteCard", "write")
  /\ cards' = DeleteCards(cards, proc[p].id)
  /\ LET deleted == Undefined
     IN  Finish(p, RetVoid,
                IF deleted = Undefined THEN Failure(UndefinedDeckId) ELSE Success)
  /\ UNCHANGED <<decks, deckSeq, cardSeq, now, unlimited, study>>

\* --------------------------------------------------- deleteAllCardsInDeck
DeleteAllCardsBegin(p) ==
  /\ proc[p].pc = "idle"
  /\ \E u \in Users, deckId \in DeckIds :
       IF GetDeckById(decks, deckId, u) = Null
         THEN Answer("deleteAllCardsInDeck", u, deckId, Throw(DeckNotFound), NoRes)
         ELSE Proceed(p, Call("deleteAllCardsInDeck", u, deckId, "", "", Undefined, "write", 0))
  /\ UNCHANGED <<store, now, unlimited, study>>

DeleteAllCardsWrite(p) ==
  /\ At(p, "deleteAllCardsInDeck", "write")
  /\ cards' = DeleteCardsOfDeck(cards, proc[p].id)
  /\ Finish(p, RetVoid, NoRes)
  /\ UNCHANGED <<decks, deckSeq, cardSeq, now, unlimited, study>>

\* ---------------------------------------------------- generateCardsWithAI
\* the rows of one insert statement with several value tuples
BulkRows(batch, deckId, firstId, t) ==
  {NewCard(firstId + i - 1, deckId, batch[i].front, batch[i].back, t) :
     i \in 1..Len(batch)}

\* slip: the candidates inserted by one statement each, stopped after the first
BulkInsertFirstOnly(C, D, batch, deckId, firstId, t) ==
  IF ForeignKeyHolds(D, deckId)
    THEN C \cup {NewCard(firstId, deckId, batch[1].front, batch[1].back, t)}
    ELSE C

\* createCardsForDeck's bulk insert: one statement, every row or none
BulkInsert(C, D, batch, deckId, firstId, t) ==
  IF ForeignKeyHolds(D, deckId) THEN C \cup BulkRows(batch, deckId, firstId, t) ELSE C

\* card ids that the batches awaiting their insert will take
PendingCards ==
  Cardinality({x \in Procs \X (1..MaxBatch) : x[2] <= Len(proc[x[1]].batch)})

\* auth, the feature check, the input schema, the action's ownership select and
\* the description check (no description in the input sets is blank after trim)
GenerateCardsCall(p, u, deckId, canUseAI) ==
  /\ proc[p].pc = "idle"
  /\ LET deck == GetDeckById(decks, deckId, u)
     IN  IF ~canUseAI
           THEN Answer("generateCards", u, deckId, NoRet, Failure(AiProOnly))
         ELSE IF deck = Null
           THEN Answer("generateCards", u, deckId, NoRet, Failure(DeckNotFound))
         ELSE IF deck.description = Null \/ deck.description.str = ""
           THEN Answer("generateCards", u, deckId, NoRet, Failure(NeedsDescription))
         ELSE Proceed(p, Call("generateCards", u, deckId, "", "", Undefined, "generate", 0))
  /\ UNCHANGED <<store, now, unlimited, study>>

GenerateCardsBegin(p) ==
  \E u \in Users, deckId \in DeckIds, canUseAI \in BOOLEAN :
    GenerateCardsCall(p, u, deckId, canUseAI)

\* generateObject fails, or returns candidates (taken as they are: flashcardSchema
\* asks for strings only) and createCardsForDeck runs its ownership select
GenerateCardsOutput(p) ==
  /\ At(p, "generateCards", "generate")
  /\ \/ Finish(p, NoRet, Failure(AiBusy))
     \/ \E batch \in Batches :
          /\ cardSeq + PendingCards + Len(batch) <= MaxGenCardId
          /\ IF GetDeckById(decks, proc[p].id, proc[p].user) = Null
               THEN Finish(p, Throw(DeckNotFound), Failure(DeckNotFound))
               ELSE Proceed(p, [proc[p] EXCEPT !.pc = "insert", !.batch = batch])
  /\ UNCHANGED <<store, now, unlimited, study>>

\* createCardsForDeck's bulk insert; the store checks the foreign key
CreateCardsInsert(p) ==
  /\ At(p, "generateCards", "insert")
  /\ cards' = BulkInsert(cards, decks, proc[p].batch, proc[p].id, cardSeq + 1, now)
  /\ IF ForeignKeyHolds(decks, proc[p].id)
       THEN /\ cardSeq' = cardSeq + Len(proc[p].batch)
            /\ Finish(p, RetRows, Success)
       ELSE /\ cardSeq' = cardSeq
            /\ Finish(p, Throw(ForeignKeyViolation), Failure(ForeignKeyViolation))
  /\ UNCHANGED <<decks, deckSeq, now, unlimited, study>>

\* ---------------------------------------------------------- specification
Step(p) ==
  \/ GetDeckCardsCheck(p)
  \/ GetDeckCardsSelect(p)
  \/ CreateDeckBegin(p)
  \/ CreateDeckInsert(p)
  \/ UpdateDeckBegin(p)
  \/ UpdateDeckWrite(p)
  \/ DeleteDeckBegin(p)
  \/ DeleteDeckWrite(p)
  \/ CreateCardBegin(p)
  \/ CreateCardInsert(p)
  \/ UpdateCardBegin(p)
  \/ UpdateCardWrite(p)
  \/ DeleteCardBegin(p)
  \/ DeleteCardWrite(p)
  \/ DeleteAllCardsBegin(p)
  \/ DeleteAllCardsWrite(p)

Next == \E p \in Procs : Step(p)

Spec == Init /\ [][Next]_vars

\* ------------------------------------------- the deck operations, in full
\* createDeck, updateDeck and deleteDeck with and without a description
DeckCreateDeckBegin(p) ==
  \E u \in Users, name \in DeckNames, description \in DeckDescriptions :
    CreateDeckCall(p, u, name, description, MaxDeckId)

DeckUpdateDeckBegin(p) ==
  \E u \in Users, id \in DeckIds, name \in DeckNames, description \in DeckDescriptions :
    UpdateDeckCall(p, u, id, name, description)

NextDecks ==
  \E p \in Procs :
    \/ DeckCreateDeckBegin(p)
    \/ CreateDeckInsert(p)
    \/ DeckUpdateDeckBegin(p)
    \/ UpdateDeckWrite(p)
    \/ DeleteDeckBegin(p)
    \/ DeleteDeckWrite(p)

SpecDecks == Init /\ [][NextDecks]_vars

\* ------------------------------------------------------- the deck quota
\* createDeck and deleteDeck alone, with room for more decks than the limit
QuotaCreateDeckBegin(p) ==
  \E u \in Users, name \in QuotaDeckNames, description \in NoDescription :
    CreateDeckCall(p, u, name, description, MaxQuotaDeckId)

QuotaDeleteDeckBegin(p) == \E u \in Users, id \in QuotaDeckIds : DeleteDeckCall(p, u, id)

NextQuota ==
  \E p \in Procs :
    \/ QuotaCreateDeckBegin(p)
    \/ CreateDeckInsert(p)
    \/ QuotaDeleteDeckBegin(p)
    \/ DeleteDeckWrite(p)

SpecQuota == Init /\ [][NextQuota]_vars

\* the same over time, when the createDeck requests of one user never overlap
SeqCreateDeckBegin(p) ==
  \E u \in Users, name \in QuotaDeckNames, description \in NoDescription :
    /\ ~\E q \in Procs : proc[q].op = "createDeck" /\ proc[q].user = u
    /\ CreateDeckCall(p, u, name, description, MaxQuotaDeckId)

NextSeq ==
  \/ Tick
  \/ \E p \in Procs :
       \/ SeqCreateDeckBegin(p)
       \/ CreateDeckInsert(p)
       \/ QuotaDeleteDeckBegin(p)
       \/ DeleteDeckWrite(p)

SpecSeq == Init /\ [][NextSeq]_vars

\* -------------------------------------------------- the deck quota, raced
\* overlapping createDeck requests, with room for two decks beyond the limit
RaceCreateDeckBegin(p) ==
  \E u \in Users, name \in QuotaDeckNames, description \in NoDescription :
    CreateDeckCall(p, u, name, description, MaxRaceDeckId)

RaceDeleteDeckBegin(p) == \E u \in Users, id \in RaceDeckIds : DeleteDeckCall(p, u, id)

NextRace ==
  \E p \in Procs :
    \/ RaceCreateDeckBegin(p)
    \/ CreateDeckInsert(p)
    \/ RaceDeleteDeckBegin(p)
    \/ DeleteDeckWrite(p)

SpecRace == Init /\ [][NextRace]_vars

\* ------------------------------------------------------- card generation
\* decks created with and without a description, deleted, and filled by
\* generateCardsWithAI
GenCreateDeckBegin(p) ==
  \E u \in Users, name \in QuotaDeckNames, description \in DeckDescriptions :
    CreateDeckCall(p, u, name, description, MaxGenDeckId)

NextGen ==
  \E p \in Procs :
    \/ GenCreateDeckBegin(p)
    \/ CreateDeckInsert(p)
    \/ DeleteDeckBegin(p)
    \/ DeleteDeckWrite(p)
    \/ GenerateCardsBegin(p)
    \/ GenerateCardsOutput(p)
    \/ CreateCardsInsert(p)

SpecGen == Init /\ [][NextGen]_vars

\* -------------------------------------------------------------- timestamps
\* one deck and its card, created and updated while time passes
ClockCreateDeckBegin(p) ==
  \E u \in Users, name \in QuotaDeckNames, description \in NoDescription :
    CreateDeckCall(p, u, name, description, MaxClockDeckId)

NextClock ==
  \/ Tick
  \/ \E p \in Procs :
       \/ ClockCreateDeckBegin(p)
       \/ CreateDeckInsert(p)
       \/ UpdateDeckBegin(p)
       \/ UpdateDeckWrite(p)
       \/ CreateCardBegin(p)
       \/ CreateCardInsert(p)
       \/ UpdateCardBegin(p)
       \/ UpdateCardWrite(p)

SpecClock == Init /\ [][NextClock]_vars

\* ------------------------------------------------------ the study session
\* The study page mounts FlashcardStudy with the cards of the deck, and only
\* when there is at least one card; a card is named by its id.
StudyDecks == {[i \in 1..n |-> i] : n \in 1..MaxStudyCards}

\* a reordering that may show one card twice and drop another
ShufflesWithRepeats(q) == [1..Len(q) -> {q[i] : i \in 1..Len(q)}]

\* [...studyCards].sort(() => Math.random() - 0.5): some order of the same cards
Shuffles(q) ==
  {[i \in 1..Len(q) |-> q[f[i]]] :
     f \in {g \in [1..Len(q) -> 1..Len(q)] :
              \A i, j \in 1..Len(q) : i # j => g[i] # g[j]}}

\* a flip state that survives a change of card
FlippedKept(i, flipped) == flipped

\* useEffect(() => setIsFlipped(false), [currentIndex]): the flip state after
\* a handler asked for index i and flip state flipped
FlippedAfter(i, flipped) == IF i # currentIndex THEN FALSE ELSE flipped

\* an advance that runs past the last card
AdvancedUnclamped == currentIndex + 1

\* the index after a handler that moves on unless the last card is shown
Advanced == IF currentIndex < Len(studyCards) - 1
              THEN currentIndex + 1 ELSE currentIndex

\* the completion message is rendered: last card, revealed
CompletionShown == currentIndex = Len(studyCards) - 1 /\ isFlipped

SessionOnly == /\ UNCHANGED <<store, now, unlimited, proc>>
               /\ resp' = NoResp

\* a flip that also clears the score
handleFlipClearingScore ==
  /\ isFlipped' = ~isFlipped
  /\ correctCount' = 0
  /\ incorrectCount' = 0
  /\ UNCHANGED <<propCards, studyCards, currentIndex, isShuffled>>
  /\ SessionOnly

handleFlip ==
  /\ isFlipped' = ~isFlipped
  /\ UNCHANGED <<propCards, studyCards, currentIndex, isShuffled,
                 correctCount, incorrectCount>>
  /\ SessionOnly

handleNext ==
  /\ currentIndex' = Advanced
  /\ isFlipped' = FlippedAfter(Advanced, isFlipped)
  /\ UNCHANGED <<propCards, studyCards, isShuffled, correctCount, incorrectCount>>
  /\ SessionOnly

\* a previous that wraps from the first card to the last
handlePreviousWrapping ==
  /\ currentIndex' = IF currentIndex > 0 THEN currentIndex - 1
                                         ELSE Len(studyCards) - 1
  /\ isFlipped' = FlippedAfter(currentIndex', isFlipped)
  /\ UNCHANGED <<propCards, studyCards, isShuffled, correctCount, incorrectCount>>
  /\ SessionOnly

handlePrevious ==
  /\ currentIndex' = IF currentIndex > 0 THEN currentIndex - 1 ELSE currentIndex
  /\ isFlipped' = FlippedAfter(currentIndex', isFlipped)
  /\ UNCHANGED <<propCards, studyCards, isShuffled, correctCount, incorrectCount>>
  /\ SessionOnly

handleShuffle ==
  /\ \E shuffled \in Shuffles(studyCards) : studyCards' = shuffled
  /\ currentIndex' = 0
  /\ isFlipped' = FALSE
  /\ isShuffled' = TRUE
  /\ correctCount' = 0
  /\ incorrectCount' = 0
  /\ UNCHANGED propCards
  /\ SessionOnly

\* a restart that keeps the order on screen
handleRestartKeepingOrder ==
  /\ currentIndex' = 0
  /\ isFlipped' = FALSE
  /\ isShuffled' = FALSE
  /\ correctCount' = 0
  /\ incorrectCount' = 0
  /\ UNCHANGED <<propCards, studyCards>>
  /\ SessionOnly

\* a restart that is refused once the completion message is shown
handleRestartUnlessComplete ==
  /\ ~CompletionShown
  /\ studyCards' = propCards
  /\ currentIndex' = 0
  /\ isFlipped' = FALSE
  /\ isShuffled' = FALSE
  /\ correctCount' = 0
  /\ incorrectCount' = 0
  /\ UNCHANGED propCards
  /\ SessionOnly

handleRestart ==
  /\ studyCards' = propCards
  /\ currentIndex' = 0
  /\ isFlipped' = FALSE
  /\ isShuffled' = FALSE
  /\ correctCount' = 0
  /\ incorrectCount' = 0
  /\ UNCHANGED propCards
  /\ SessionOnly

\* a mark-correct control that is there whether or not the card is flipped
handleCorrectAnyTime ==
  /\ correctCount + incorrectCount < MaxMarks
  /\ correctCount' = correctCount + 1
  /\ currentIndex' = Advanced
  /\ isFlipped' = FlippedAfter(Advanced, isFlipped)
  /\ UNCHANGED <<propCards, studyCards, isShuffled, incorrectCount>>
  /\ SessionOnly

\* the two marking buttons are rendered only while the card is flipped
handleCorrect ==
  /\ isFlipped
  /\ correctCount + incorrectCount < MaxMarks
  /\ correctCount' = correctCount + 1
  /\ currentIndex' = Advanced
  /\ isFlipped' = FlippedAfter(Advanced, isFlipped)
  /\ UNCHANGED <<propCards, studyCards, isShuffled, incorrectCount>>
  /\ SessionOnly

handleIncorrect ==
  /\ isFlipped
  /\ correctCount + incorrectCount < MaxMarks
  /\ incorrectCount' = incorrectCount + 1
  /\ currentIndex' = Advanced
  /\ isFlipped' = FlippedAfter(Advanced, isFlipped)
  /\ UNCHANGED <<propCards, studyCards, isShuffled, correctCount>>
  /\ SessionOnly

InitStudy == InitStore /\ \E loaded \in StudyDecks : Mounted(loaded)

NextStudy ==
  \/ handleFlip
  \/ handleNext
  \/ handlePrevious
  \/ handleShuffle
  \/ handleRestart
  \/ handleCorrect
  \/ handleIncorrect

SpecStudy == InitStudy /\ [][NextStudy]_vars

\* ---------------------------------------------------------- the study page
\* The page of one browser tab: it loads the deck, then its cards, and mounts
\* the study component over them.  The store holds one deck of u1 with up to
\* MaxPageCards cards, which its owner may delete while the page loads.
SessionOpen == propCards # <<>>

\* orderBy(desc(cardsTable.updatedAt)): the ids of the rows, latest update first
CardOrders(rows) ==
  {q \in [1..Cardinality(rows) -> {c.id : c \in rows}] :
     /\ \A i, j \in 1..Cardinality(rows) : i # j => q[i] # q[j]
     /\ \A i, j \in 1..Cardinality(rows) :
          i < j => \A c, e \in rows :
                     (c.id = q[i] /\ e.id = q[j]) => c.updatedAt >= e.updatedAt}

\* auth, the deck id of the route, then getDeckById; the tab loads the page
\* once at a time and has no study component while it does
StudyPageOpen(p) ==
  /\ proc[p].pc = "idle"
  /\ InFlight("studyPage") = 0
  /\ ~SessionOpen
  /\ \E u \in Users, id \in DeckIds :
       IF GetDeckById(decks, id, u) = Null
         THEN Answer("studyPage", u, id, Throw(NotFound), NoRes)
         ELSE Proceed(p, Call("studyPage", u, id, "", "", Undefined, "check", 0))
  /\ UNCHANGED <<store, now, unlimited, study>>

\* getDeckCards' ownership select; without the deck the page has no cards
StudyPageCardsCheck(p) ==
  /\ At(p, "studyPage", "check")
  /\ IF GetDeckById(decks, proc[p].id, proc[p].user) = Null
       THEN Finish(p, RetNoCards, NoRes)
       ELSE Proceed(p, [proc[p] EXCEPT !.pc = "cards"])
  /\ UNCHANGED <<store, now, unlimited, study>>

\* the component is rendered for the first time over the cards it is given
Mount(cardsProp) ==
  /\ propCards' = cardsProp
  /\ studyCards' = cardsProp
  /\ currentIndex' = 0
  /\ isFlipped' = FALSE
  /\ isShuffled' = FALSE
  /\ correctCount' = 0
  /\ incorrectCount' = 0

\* slip: the test for an empty card list left out
StudyPageRenderUnchecked(p) ==
  /\ At(p, "studyPage", "cards")
  /\ \E loaded \in CardOrders(SelectDeckCards(cards, proc[p].id)) : Mount(loaded)
  /\ Finish(p, RetSession, NoRes)
  /\ UNCHANGED <<store, now, unlimited>>

\* getDeckCards' select of the cards, then the page's choice of what to render
StudyPageRender(p) ==
  /\ At(p, "studyPage", "cards")
  /\ LET rows == SelectDeckCards(cards, proc[p].id)
     IN  IF rows = {}
           THEN /\ Finish(p, RetNoCards, NoRes)
                /\ UNCHANGED study
           ELSE /\ \E loaded \in CardOrders(rows) : Mount(loaded)
                /\ Finish(p, RetSession, NoRes)
  /\ UNCHANGED <<store, now, unlimited>>

\* the controls of the study component exist once it is mounted
SessionEvent ==
  /\ SessionOpen
  /\ \/ handleFlip
     \/ handleNext
     \/ handlePrevious
     \/ handleShuffle
     \/ handleRestart
     \/ handleCorrect
     \/ handleIncorrect

InitPage ==
  /\ \E n \in 0..MaxPageCards :
       /\ cards = {NewCard(i, 1, "q", "s", 0) : i \in 1..n}
       /\ cardSeq = n
  /\ decks = {NewDeck(1, "u1", "a", Undefined, 0)}
  /\ deckSeq = 1
  /\ now = 0
  /\ unlimited = {"u2"}
  /\ proc = [p \in Procs |-> IdleProc]
  /\ resp = NoResp
  /\ Mounted(<<>>)

NextPage ==
  \/ SessionEvent
  \/ \E p \in Procs :
       \/ StudyPageOpen(p)
       \/ StudyPageCardsCheck(p)
       \/ StudyPageRender(p)
       \/ DeleteDeckBegin(p)
       \/ DeleteDeckWrite(p)

SpecPage == InitPage /\ [][NextPage]_vars

\* ================================================================ claims
\* rows a user owns: decks directly, cards through their deck
DecksOf(D, u) == {d \in D : d.userId = u}
CardsOf(C, D, u) == {c \in C : \E d \in D : d.id = c.deckId /\ d.userId = u}

\* the user whose request takes the step from the unprimed to the primed state
ActingUser ==
  IF \E p \in Procs : proc[p].pc # "idle" /\ proc'[p] # proc[p]
    THEN proc[CHOOSE p \in Procs : proc[p].pc # "idle" /\ proc'[p] # proc[p]].user
  ELSE IF \E p \in Procs : proc'[p] # proc[p]
    THEN proc'[CHOOSE p \in Procs : proc'[p] # proc[p]].user
  ELSE resp'.user

\* the step is a call that answers at its first statement
AnswersAtOnce(op) == proc' = proc /\ resp' # resp /\ resp'.op = op
\* the step is the first statement of a call of p that goes on to pc
GoesOn(p, op, pc) == proc[p].pc = "idle" /\ proc'[p].op = op /\ proc'[p].pc = pc
\* the step is the last statement of the call of p
Completes(p, op) == proc[p].op = op /\ proc[p].pc # "idle" /\ proc'[p].pc = "idle"

CardOps == {"updateCard", "deleteCard"}
DeckOps == {"updateDeck", "deleteDeck", "createCard", "deleteAllCardsInDeck"}
\* the ownership check of a write operation, evaluated on the current rows
Owned(op, id, u) ==
  IF op \in CardOps
    THEN GetCardById(cards, decks, id, u) # Null
    ELSE GetDeckById(decks, id, u) # Null
NotFoundOf(op) == IF op \in CardOps THEN CardNotFound ELSE DeckNotFound

\* ---- C1
ReadIsolation ==
  \A u \in Users :
    /\ \A id \in DeckIds :
         GetDeckById(decks, id, u) # Null => GetDeckById(decks, id, u) \in DecksOf(decks, u)
    /\ GetUserDecks(decks, u) \subseteq DecksOf(decks, u)
    /\ GetUserDeckCount(decks, u) = Cardinality(DecksOf(decks, u))
    /\ \A id \in CardIds :
         GetCardById(cards, decks, id, u) # Null
           => GetCardById(cards, decks, id, u) \in CardsOf(cards, decks, u)
    /\ GetAllUserCards(cards, decks, u) \subseteq CardsOf(cards, decks, u)
    /\ \A p \in Procs :
         At(p, "getDeckCards", "cards") /\ proc[p].user = u
           => SelectDeckCards(cards, proc[p].id) \subseteq CardsOf(cards, decks, u)

WriteIsolation ==
  \A v \in Users \ {ActingUser} :
    /\ DecksOf(decks', v) = DecksOf(decks, v)
    /\ CardsOf(cards', decks', v) = CardsOf(cards, decks, v)

\* C1: whatever the interleaving, no read made for a user returns a deck or a card
\* of another user, and no step of a user's request changes, adds or removes a deck
\* or a card of another user.
C1_Isolation == []ReadIsolation /\ [][WriteIsolation]_vars

\* both users own a deck, one of them holds a card, and the last step was a write
\* of the other user that changed a row
C1_Witness ==
  /\ resp.op = "updateDeck" /\ resp.ret = RetRow /\ resp.user = "u1"
  /\ CardsOf(cards, decks, "u2") # {}
  /\ \E d \in DecksOf(decks, "u1") : d.name = "b"

\* ---- C2
\* C2: in every reachable state, for every deck id and user, getDeckById returns a
\* deck exactly when a deck with that id exists and is owned by that user; what it
\* returns is then that deck, and otherwise null (never undefined, never a throw).
C2_GetDeckPresentIffOwned ==
  \A id \in DeckIds, u \in Users :
    LET got == GetDeckById(decks, id, u)
    IN  /\ (got # Null) <=> (\E d \in decks : d.id = id /\ d.userId = u)
        /\ got # Undefined
        /\ got # Null => /\ got.id = id /\ got.userId = u
                         /\ \A d \in decks : d.id = id => d = got

\* a deck that its owner gets and the other user does not
C2_Witness ==
  \E d \in decks :
    /\ GetDeckById(decks, d.id, d.userId) = d
    /\ \E v \in Users \ {d.userId} : GetDeckById(decks, d.id, v) = Null
    /\ \E id \in DeckIds : id <= deckSeq /\ GetDeckById(decks, id, d.userId) = Null

\* ---- C3
NoCardSurvivesItsDeck == \A c \in cards : \E d \in decks : d.id = c.deckId

CascadeStep ==
  \A p \in Procs :
    Completes(p, "deleteDeck") =>
      /\ resp'.res = Success
      /\ GetDeckCards(decks', cards', proc[p].id, proc[p].user) = Null
      /\ SelectDeckCards(cards', proc[p].id) = {}
      /\ \A c \in SelectDeckCards(cards, proc[p].id), v \in Users :
           GetCardById(cards', decks', c.id, v) = Null

\* C3: the step in which deleteDeck succeeds leaves no card of that deck, listCards
\* of the deck is then absent and no user can get a card the deck held; in no
\* reachable state does a card exist whose deck does not.
C3_Cascade == []NoCardSurvivesItsDeck /\ [][CascadeStep]_vars

\* a deleteDeck has just succeeded and the card that was created is gone, while the
\* other request still holds the ownership check it passed
C3_Witness ==
  /\ resp.op = "deleteDeck" /\ resp.res = Success
  /\ cardSeq > 0 /\ cards = {}
  /\ \E p \in Procs : proc[p].pc = "write" /\ proc[p].id = resp.id

\* ---- C4
\* C4: in every reachable state every card's deckId is the id of exactly one
\* existing deck, also when a deleteDeck runs between createCard's ownership check
\* and its insert.
C4_ReferentialIntegrity ==
  \A c \in cards : Cardinality({d \in decks : d.id = c.deckId}) = 1

\* a createCard whose deck was deleted after its ownership check: the insert is
\* refused by the store
C4_Witness ==
  /\ resp.op = "createCard"
  /\ resp.ret = Throw(ForeignKeyViolation)
  /\ ~\E d \in decks : d.id = resp.id

\* ---- C5
\* C5: between the successful ownership check of a write operation and its
\* mutation no other request's statement takes effect on the checked row: while a
\* request waits to run its mutation, the check it passed still holds.
C5_CheckAndMutationAtomic ==
  \A p \in Procs :
    proc[p].pc = "write" => Owned(proc[p].op, proc[p].id, proc[p].user)

\* ---- C6
\* C6: every updateDeck and updateCard call returns the updated row or signals
\* not-found-or-unauthorized (or is rejected by validation before the query
\* function runs): none completes without an error and without a row.
C6_UpdateReturnsRowOrFails ==
  resp.op \in {"updateDeck", "updateCard"} =>
    \/ resp.ret = RetRow
    \/ resp.ret = Throw(NotFoundOf(resp.op))
    \/ resp.ret = NoRet /\ resp.res.success = "false"

\* ---- C7
FailedCheckStep ==
  /\ \A p \in Procs, op \in DeckOps \cup CardOps :
       GoesOn(p, op, "write") => Owned(op, proc'[p].id, proc'[p].user)
  /\ \A op \in DeckOps \cup CardOps :
       AnswersAtOnce(op) /\ ~Owned(op, resp'.id, resp'.user) =>
         /\ \/ /\ resp'.ret = Throw(NotFoundOf(op))
               /\ resp'.res \in {Failure(NotFoundOf(op)), NoRes}
            \/ resp'.ret = NoRet /\ resp'.res.success = "false"
         /\ UNCHANGED <<decks, cards>>

\* C7: a write operation whose ownership check finds no deck (no card) of the
\* caller with the given id signals not-found-or-unauthorized (unless the action's
\* schema rejected the input before the query function ran), goes no further and
\* leaves every deck and card row as it was; so does a deleteDeck of a deck that an
\* earlier deleteDeck removed.
C7_NotFoundLeavesRows == [][FailedCheckStep]_vars

\* the second deleteDeck of a deck, by its owner, after the first one removed it
C7_Witness ==
  /\ resp.op = "deleteDeck"
  /\ resp.ret = Throw(DeckNotFound) /\ resp.res = Failure(DeckNotFound)
  /\ resp.id <= deckSeq
  /\ ~\E d \in decks : d.id = resp.id
  /\ decks # {}

\* ---- C8
RoundTripStep ==
  \A p \in Procs :
    Completes(p, "createDeck") =>
      LET u == proc[p].user
          got == GetDeckById(decks', resp'.id, u)
      IN  /\ resp'.ret = RetRow /\ resp'.res = Success /\ resp'.user = u
          /\ got # Null
          /\ got.id = resp'.id /\ got.userId = u /\ got.name = proc[p].a
          /\ got.description = (IF proc[p].desc = Undefined THEN Null ELSE proc[p].desc)
          /\ \A d \in decks : d.id # got.id
          /\ \A v \in Users \ {u} : GetDeckById(decks', resp'.id, v) = Null

\* C8: right after createDeck returns deck D to user u, getDeckById(D.id, u) is a
\* deck with D's id, owner u and the name and description that were given (an
\* omitted description reads back as null), and getDeckById(D.id, v) is null for
\* every other user v.
C8_CreateDeckRoundTrip == [][RoundTripStep]_vars

\* a deck created with a description, read back by its owner
C8_Witness ==
  /\ resp.op = "createDeck" /\ resp.res = Success
  /\ \E d \in decks :
       /\ d.id = resp.id /\ d.description = Str("x")
       /\ GetDeckById(decks, resp.id, resp.user) = d

\* ---- C9
QuotaDecision ==
  /\ \A e \in BOOLEAN, c \in 0..100 :
       /\ QuotaAllows(e, c) <=> (e \/ c < 3)
       /\ CanCreateMore(e, c) <=> QuotaAllows(e, c)
  /\ ~QuotaAllows(FALSE, 3)
  /\ QuotaAllows(FALSE, 2)
  /\ QuotaAllows(TRUE, 99)

QuotaStep ==
  /\ \A p \in Procs :
       GoesOn(p, "createDeck", "insert") =>
         LET u == proc'[p].user
         IN  /\ u \in unlimited \/ Cardinality(DecksOf(decks, u)) < 3
             /\ CanCreateMore(u \in unlimited, Cardinality(GetUserDecks(decks, u)))
  /\ AnswersAtOnce("createDeck") =>
       LET u == resp'.user
           allowed == u \in unlimited \/ Cardinality(DecksOf(decks, u)) < 3
       IN  /\ (resp'.res = Failure(DeckLimitReached)) <=> ~allowed
           /\ CanCreateMore(u \in unlimited, Cardinality(GetUserDecks(decks, u))) <=> allowed

\* C9: createDeck goes on to its insert exactly when the user holds the
\* unlimited-decks feature or owns fewer than 3 decks, and answers "deck limit
\* reached" exactly otherwise; the dashboard's canCreateMore is the same decision:
\* (3, false) denied, (2, false) allowed, (99, true) allowed.
C9_QuotaDecision == []QuotaDecision /\ [][QuotaStep]_vars

\* a user with the feature who owns 3 decks is let through to the insert
C9_Witness ==
  \E p \in Procs :
    /\ At(p, "createDeck", "insert")
    /\ proc[p].user \in unlimited
    /\ Cardinality(DecksOf(decks, proc[p].user)) >= 3

\* ---- C10
WithinLimit == \A u \in Users \ unlimited : Cardinality(DecksOf(decks, u)) <= 3

RefusedAtLimit ==
  \A u \in Users \ unlimited :
    AnswersAtOnce("createDeck") /\ resp'.user = u /\ Cardinality(DecksOf(decks, u)) = 3
      => resp'.res = Failure(DeckLimitReached) /\ decks' = decks /\ deckSeq' = deckSeq

\* C10: when the createDeck requests of a user without the unlimited-decks feature
\* do not overlap, that user owns at most 3 decks in every reachable state, and a
\* createDeck made while the user owns 3 is refused and inserts nothing.
C10_AtMostThreeDecks == []WithinLimit /\ [][RefusedAtLimit]_vars

\* the free user owns 3 decks and a further createDeck has just been refused
C10_Witness ==
  /\ resp.op = "createDeck" /\ resp.user = "u1"
  /\ resp.res = Failure(DeckLimitReached)
  /\ Cardinality(DecksOf(decks, "u1")) = 3

\* ---- C11
\* a createDeck of a user without the feature that waits for its insert
PendingCreates(u) ==
  Cardinality({p \in Procs : At(p, "createDeck", "insert") /\ proc[p].user = u})

QuotaRaceBound ==
  \A u \in Users \ unlimited :
    /\ Cardinality(DecksOf(decks, u)) <= FREE_DECK_LIMIT + 1
    /\ Cardinality(DecksOf(decks, u)) > FREE_DECK_LIMIT => PendingCreates(u) = 0
    /\ Cardinality(DecksOf(decks, u)) = FREE_DECK_LIMIT => PendingCreates(u) <= 1

\* C11: with two requests at a time, a user without the unlimited-decks feature
\* never owns more than 3 + 1 decks, whatever the overlap of createDeck and
\* deleteDeck requests: no insert is pending once the limit is exceeded, and at most
\* one while the user owns exactly 3 (the state with 4 decks is reachable: witness).
C11_QuotaRaceExceedsByOne == QuotaRaceBound

\* two overlapping creates of the free user both passed the count at 2 decks and
\* both inserted: the user owns 4 decks
C11_Witness ==
  /\ Cardinality(DecksOf(decks, "u1")) = FREE_DECK_LIMIT + 1
  /\ resp.op = "createDeck" /\ resp.user = "u1" /\ resp.res = Success

\* ---- C12
\* the step is a write action called with fields that its schema rejects
InvalidDeckCall ==
  \E p \in Procs, u \in Users, name \in DeckNames, description \in DeckDescriptions :
    /\ DeckSchemaIssue(name, description) # ""
    /\ \/ CreateDeckCall(p, u, name, description, MaxRaceDeckId)
       \/ \E id \in RaceDeckIds : UpdateDeckCall(p, u, id, name, description)

InvalidCardCall ==
  \E p \in Procs, u \in Users, front \in CardFronts, back \in CardBacks :
    /\ CardSchemaIssue(front, back) # ""
    /\ \/ \E deckId \in RaceDeckIds : CreateCardCall(p, u, deckId, front, back)
       \/ \E id \in CardIds : UpdateCardCall(p, u, id, front, back)

ValidationError ==
  {"Deck name is required", "Deck name is too long", "Description is too long",
   "Question is required", "Question is too long",
   "Answer is required", "Answer is too long"}

ValidationFirstStep ==
  InvalidDeckCall \/ InvalidCardCall =>
    /\ resp'.ret = NoRet
    /\ resp'.res.success = "false" /\ resp'.res.error \in ValidationError
    /\ UNCHANGED <<store, proc>>

\* C12: every createDeck, updateDeck, createCard or updateCard request whose fields
\* its schema rejects ends with the validation error, whatever the caller's deck
\* count or ownership of the target: no quota or ownership answer comes first.
C12_ValidationFirst == [][ValidationFirstStep]_vars

\* ---- C13
\* deck ids and card ids that name no row, and those that name a row of another user
MissingDeck(id) == ~\E d \in decks : d.id = id
ForeignDeck(id, u) == \E d \in decks : d.id = id /\ d.userId # u
MissingCard(id) == ~\E c \in cards : c.id = id
ForeignCard(id, u) == \E c \in cards : c.id = id /\ c \notin CardsOf(cards, decks, u)

ReadsDoNotLeak ==
  \A u \in Users :
    /\ \A id \in DeckIds :
         MissingDeck(id) \/ ForeignDeck(id, u) =>
           /\ GetDeckById(decks, id, u) = Null
           /\ GetDeckCards(decks, cards, id, u) = Null
    /\ \A id \in CardIds :
         MissingCard(id) \/ ForeignCard(id, u) => GetCardById(cards, decks, id, u) = Null

\* what a write operation answers when its target is not the caller's: a function
\* of the operation and of the fields alone
NotOwnedRet(op, issue) == IF issue # "" THEN NoRet ELSE Throw(NotFoundOf(op))
NotOwnedRes(op, issue) ==
  IF issue # "" THEN Failure(issue)
  ELSE IF op = "deleteAllCardsInDeck" THEN NoRes ELSE Failure(NotFoundOf(op))

WritesDoNotLeak ==
  \A op \in DeckOps \cup CardOps :
    AnswersAtOnce(op) /\ ~Owned(op, resp'.id, resp'.user) =>
      LET u == resp'.user
          id == resp'.id
      IN  \A p \in Procs :
            /\ \A name \in DeckNames, description \in DeckDescriptions :
                 op = "updateDeck" /\ UpdateDeckCall(p, u, id, name, description) =>
                   /\ resp'.ret = NotOwnedRet(op, DeckSchemaIssue(name, description))
                   /\ resp'.res = NotOwnedRes(op, DeckSchemaIssue(name, description))
            /\ \A front \in CardFronts, back \in CardBacks :
                 \/ op = "createCard" /\ CreateCardCall(p, u, id, front, back)
                 \/ op = "updateCard" /\ UpdateCardCall(p, u, id, front, back)
                 => /\ resp'.ret = NotOwnedRet(op, CardSchemaIssue(front, back))
                    /\ resp'.res = NotOwnedRes(op, CardSchemaIssue(front, back))
            /\ op \in {"deleteDeck", "deleteCard", "deleteAllCardsInDeck"} =>
                 /\ resp'.ret = NotOwnedRet(op, "")
                 /\ resp'.res = NotOwnedRes(op, "")

\* C13: a read of an id that names no row and a read of an id that names a row of
\* another user both return null; a write operation on either answers with an error
\* value and message fixed by the operation and its fields alone, the same in both
\* cases.
C13_NoExistenceLeak == []ReadsDoNotLeak /\ [][WritesDoNotLeak]_vars

\* an updateDeck on a deck of another user has just been refused, while a deck id
\* that names no row exists as well
C13_Witness ==
  /\ resp.op = "updateDeck" /\ resp.res = Failure(DeckNotFound)
  /\ ForeignDeck(resp.id, resp.user)
  /\ \E id \in DeckIds : MissingDeck(id)

\* ---- C14
ListCardsResult ==
  \A u \in Users, id \in DeckIds :
    LET owned == \E d \in decks : d.id = id /\ d.userId = u
        got == GetDeckCards(decks, cards, id, u)
    IN  /\ ~owned => got = Null
        /\ owned => got # Null /\ got = Rows({c \in cards : c.deckId = id})

ListCardsStep ==
  /\ AnswersAtOnce("getDeckCards") =>
       /\ resp'.ret = RetNull
       /\ ~\E d \in decks : d.id = resp'.id /\ d.userId = resp'.user
  /\ \A p \in Procs :
       /\ GoesOn(p, "getDeckCards", "cards") =>
            \E d \in decks : d.id = proc'[p].id /\ d.userId = proc'[p].user
       /\ Completes(p, "getDeckCards") => resp'.ret = RetRows
  /\ resp'.op = "getDeckCards" => resp'.ret.kind # "throw" /\ UNCHANGED store

\* C14: getDeckCards returns null exactly when no deck with the id is owned by the
\* user (as of its ownership select) and otherwise the cards whose deckId is the id,
\* an empty collection and not null for an owned deck without cards; it never
\* throws and changes no row.
C14_ListCards == []ListCardsResult /\ [][ListCardsStep]_vars

\* a deck with a card and a deck without one: the owner of the empty deck has just
\* listed its cards
C14_Witness ==
  /\ resp.op = "getDeckCards" /\ resp.ret = RetRows
  /\ \E d \in decks : d.id = resp.id /\ d.userId = resp.user
  /\ GetDeckCards(decks, cards, resp.id, resp.user) = Rows({})
  /\ \E d \in decks : GetDeckCards(decks, cards, d.id, d.userId) # Rows({})

\* ---- C15
AllOrNothingStep ==
  \A p \in Procs :
    /\ Completes(p, "generateCards") /\ proc[p].pc = "insert" =>
         LET batch == proc[p].batch
             new == cards' \ cards
         IN  \/ /\ resp'.res = Success
                /\ cards \subseteq cards'
                /\ Cardinality(new) = Len(batch)
                /\ \A i \in 1..Len(batch) :
                     \E c \in new : /\ c.front = batch[i].front /\ c.back = batch[i].back
                                    /\ c.deckId = proc[p].id
                                    /\ c.id = cardSeq + i
                /\ \E d \in decks' : d.id = proc[p].id
             \/ /\ resp'.res.success = "false"
                /\ cards' = cards
    /\ proc[p].op = "generateCards" /\ proc[p].pc # "insert" /\ proc'[p] # proc[p] =>
         cards' = cards
    /\ AnswersAtOnce("generateCards") => cards' = cards

\* C15: the step in which generateCardsWithAI saves its candidates stores every
\* candidate of the batch as a card of the deck, or fails and stores none, also
\* when the deck was deleted after the ownership check; no other step of the call
\* stores a card.
C15_BatchAllOrNothing == [][AllOrNothingStep]_vars

\* a batch of two candidates has just been saved
C15_Witness ==
  /\ resp.op = "generateCards" /\ resp.res = Success
  /\ Cardinality({c \in cards : c.deckId = resp.id}) >= 2

\* ---- C16
\* C16: every stored card passes the field validation of manually entered cards:
\* its front and its back are not empty and not longer than 1000 characters.
C16_GeneratedCardsValidated ==
  \A c \in cards : CardSchemaIssue(c.front, c.back) = ""

\* ---- C17
UpdateDeckOverwritesStep ==
  \A p \in Procs :
    Completes(p, "updateDeck") /\ resp'.res = Success /\ resp'.ret = RetRow =>
      \E old \in decks, new \in decks' :
        /\ old.id = proc[p].id /\ new.id = proc[p].id
        /\ new.name = proc[p].a
        /\ new.description = ToSql(proc[p].desc)
        /\ new.updatedAt = proc[p].ts
        /\ new.userId = old.userId /\ new.createdAt = old.createdAt
        /\ decks' \ {new} = decks \ {old}

\* C17: the step in which updateDeck succeeds leaves the deck with the name and the
\* description that were supplied (null when the description was omitted) and a
\* refreshed updatedAt, its id, owner and createdAt as they were, and every other
\* deck unchanged.
C17_UpdateDeckOverwrites == [][UpdateDeckOverwritesStep]_vars

\* ---- C18
UpdatedNotBeforeCreated ==
  /\ \A d \in decks : d.updatedAt >= d.createdAt
  /\ \A c \in cards : c.updatedAt >= c.createdAt

UpdatedAtNeverDecreases ==
  /\ \A d \in decks, e \in decks' : d.id = e.id => e.updatedAt >= d.updatedAt
  /\ \A c \in cards, e \in cards' : c.id = e.id => e.updatedAt >= c.updatedAt

\* C18: in every reachable state the updatedAt of every deck and card is not
\* earlier than its createdAt, and no step, also of two overlapping updates of a
\* row, stores an updatedAt earlier than the one the row had.
C18_Timestamps == []UpdatedNotBeforeCreated /\ [][UpdatedAtNeverDecreases]_vars

\* ---- C19
DeleteCardStep ==
  /\ \A p \in Procs :
       Completes(p, "deleteCard") /\ Owned("deleteCard", proc[p].id, proc[p].user) =>
         /\ cards' = {c \in cards : c.id # proc[p].id}
         /\ decks' = decks
         /\ resp'.res = Success
  /\ resp' # resp /\ resp'.op = "deleteCard" /\ resp'.res.success = "false" =>
       ~Owned("deleteCard", resp'.id, resp'.user)

\* C19: a deleteCard of a card that the caller owns through its deck removes that
\* card and no other row and answers success; deleteCard answers a failure only
\* when the card does not exist or is not the caller's.
C19_DeleteCardSucceeds == [][DeleteCardStep]_vars

\* ---- C20
\* C20: in every state a study session reaches by flipping, moving to the next
\* or previous card, shuffling, restarting and marking a revealed card correct
\* or incorrect, the number of cards marked correct plus the number marked
\* incorrect is at most the number of cards in the session.
C20_ScoreInvariant == correctCount + incorrectCount <= Len(studyCards)

\* ---- C21
\* C21: a study session over n >= 1 loaded cards always shows n cards and its
\* position is always the index of one of them, whatever the user does.
C21_PositionInRange ==
  /\ Len(propCards) >= 1
  /\ Len(studyCards) = Len(propCards)
  /\ currentIndex \in 0 .. Len(studyCards) - 1

\* the last card of a shuffled session of more than one card, some marks made
C21_Witness ==
  /\ isShuffled
  /\ Len(studyCards) > 1
  /\ currentIndex = Len(studyCards) - 1
  /\ correctCount + incorrectCount > 0

\* ---- C22
\* what next does to the position and the flip state: one card on and hidden
\* when not on the last card, nothing on the last card
MovesLikeNext ==
  IF currentIndex < Len(studyCards) - 1
    THEN currentIndex' = currentIndex + 1 /\ isFlipped' = FALSE
    ELSE UNCHANGED <<currentIndex, isFlipped>>

\* the state of a 3-card session after flip from its initial state
FlippedFirstOfThree ==
  /\ Len(studyCards) = 3 /\ studyCards = propCards /\ ~isShuffled
  /\ currentIndex = 0 /\ isFlipped
  /\ correctCount = 0 /\ incorrectCount = 0

MarkStep ==
  /\ handleCorrect =>
       /\ correctCount' = correctCount + 1
       /\ UNCHANGED <<incorrectCount, studyCards, propCards, isShuffled>>
       /\ MovesLikeNext
  /\ handleIncorrect =>
       /\ incorrectCount' = incorrectCount + 1
       /\ UNCHANGED <<correctCount, studyCards, propCards, isShuffled>>
       /\ MovesLikeNext
  /\ (FlippedFirstOfThree /\ handleCorrect) =>
       (currentIndex' = 1 /\ isFlipped' = FALSE /\ correctCount' = 1)

\* C22: marking a card correct (incorrect) adds exactly 1 to the correct
\* (incorrect) count, leaves the other count, the order and the shuffled marker
\* alone, and moves and hides exactly as next does; in a 3-card session flip
\* then mark-correct from the start gives position 1, hidden, 1 correct.
C22_MarkIncrementsAndAdvances == [][MarkStep]_vars

\* a 3-card session after flip, mark-correct from the start
C22_Witness ==
  /\ Len(studyCards) = 3 /\ ~isShuffled
  /\ currentIndex = 1 /\ ~isFlipped
  /\ correctCount = 1 /\ incorrectCount = 0

\* ---- C23
NavigationStep ==
  /\ handleNext =>
       /\ IF currentIndex < Len(studyCards) - 1
            THEN currentIndex' = currentIndex + 1 /\ isFlipped' = FALSE
            ELSE UNCHANGED study
       /\ UNCHANGED <<studyCards, correctCount, incorrectCount>>
  /\ handlePrevious =>
       /\ IF currentIndex > 0
            THEN currentIndex' = currentIndex - 1 /\ isFlipped' = FALSE
            ELSE UNCHANGED study
       /\ UNCHANGED <<studyCards, correctCount, incorrectCount>>

\* C23: next moves one card on and hides it when a next card exists and
\* otherwise changes nothing at all; previous moves one card back and hides it
\* when a previous card exists and otherwise changes nothing at all; neither
\* changes the order or the two counts, and neither wraps around.
C23_NavigationClamped == [][NavigationStep]_vars

\* a session of more than one card that went back to its first card after
\* every card was marked
C23_Witness ==
  /\ Len(studyCards) > 1
  /\ currentIndex = 0
  /\ ~isFlipped
  /\ correctCount + incorrectCount >= Len(studyCards)

\* ---- C24
\* q holds every card of r exactly once and nothing else
IsPermutationOf(q, r) ==
  /\ Len(q) = Len(r)
  /\ \A i \in 1..Len(r) :
       Cardinality({j \in 1..Len(q) : q[j] = r[i]}) =
       Cardinality({j \in 1..Len(r) : r[j] = r[i]})

ShuffleStep ==
  handleShuffle =>
    /\ IsPermutationOf(studyCards', propCards)
    /\ currentIndex' = 0
    /\ isFlipped' = FALSE
    /\ correctCount' = 0
    /\ incorrectCount' = 0
    /\ isShuffled' = TRUE

\* C24: a shuffle, from whatever state, leaves an order that holds every loaded
\* card exactly once, at position 0, hidden, both counts 0 and the shuffled
\* marker set; the order is a permutation of the loaded cards in every state,
\* however many shuffles were made.
C24_ShufflePermutes ==
  []IsPermutationOf(studyCards, propCards) /\ [][ShuffleStep]_vars

\* a shuffled session whose order differs from the loaded order
C24_Witness ==
  /\ isShuffled
  /\ studyCards # propCards
  /\ Len(studyCards) = MaxStudyCards
  /\ currentIndex = 0 /\ ~isFlipped
  /\ correctCount = 0 /\ incorrectCount = 0

\* ---- C25
\* the state a session over the loaded cards starts in
IsInitialSession ==
  /\ studyCards = propCards
  /\ currentIndex = 0
  /\ isFlipped = FALSE
  /\ correctCount = 0
  /\ incorrectCount = 0
  /\ isShuffled = FALSE

RestartStep ==
  handleRestart =>
    /\ IsInitialSession'
    /\ propCards' = propCards
    /\ IsInitialSession => UNCHANGED study

\* C25: a restart, from whatever state, leaves exactly the state the session
\* started in: the loaded order, position 0, hidden, both counts 0, shuffled
\* marker cleared; a restart of a session in that state changes nothing, so
\* two restarts give the same state as one.
C25_RestartIsInitial == [][RestartStep]_vars

\* a state where restart has everything to undo: shuffled into another order,
\* moved on, a card marked and the current card revealed
C25_Witness ==
  /\ isShuffled
  /\ studyCards # propCards
  /\ currentIndex > 0
  /\ isFlipped
  /\ correctCount > 0
  /\ incorrectCount > 0

\* ---- C26
FlipStep ==
  handleFlip =>
    /\ isFlipped' = ~isFlipped
    /\ UNCHANGED <<currentIndex, studyCards, propCards, correctCount,
                   incorrectCount, isShuffled>>

\* C26: a flip turns the current card over and changes nothing else: position,
\* order, both counts and the shuffled marker stay; as the only change is the
\* negation of a boolean, a second flip gives back the state before the first.
C26_FlipOnlyToggles == [][FlipStep]_vars

\* a revealed card in the middle of a session with marks of both kinds
C26_Witness ==
  /\ isFlipped
  /\ currentIndex > 0
  /\ correctCount > 0
  /\ incorrectCount > 0
  /\ ~isShuffled

\* ---- C27
\* restart, shuffle and previous can be taken and do what they always do
StillInteractive ==
  /\ ENABLED (handleRestart /\ IsInitialSession')
  /\ ENABLED (handleShuffle /\ currentIndex' = 0 /\ isFlipped' = FALSE
                            /\ isShuffled' = TRUE)
  /\ currentIndex > 0 =>
       ENABLED (handlePrevious /\ currentIndex' = currentIndex - 1
                               /\ isFlipped' = FALSE)

\* C27: the session is complete exactly when the last card is shown revealed;
\* that is a view of the state and not a dead end: in every complete state
\* restart, shuffle and previous can still be taken with their usual effect,
\* and from every state one restart leads back to the initial state.
C27_CompletionNotAbsorbing ==
  /\ CompletionShown => StillInteractive
  /\ ENABLED (handleRestart /\ IsInitialSession')

\* a complete session of more than one card with a score
C27_Witness ==
  /\ CompletionShown
  /\ Len(studyCards) > 1
  /\ correctCount + incorrectCount > 0

\* ---- C28
\* the step of p is the one in which getDeckCards gives the page no deck
\* (absent) or no rows (an empty list)
ListsNoCards(p) ==
  \/ /\ At(p, "studyPage", "check")
     /\ GetDeckById(decks, proc[p].id, proc[p].user) = Null
  \/ /\ At(p, "studyPage", "cards")
     /\ SelectDeckCards(cards, proc[p].id) = {}

StudyPageStep ==
  /\ \A p \in Procs :
       (ListsNoCards(p) /\ proc'[p] # proc[p]) =>
         /\ resp'.ret # RetSession
         /\ UNCHANGED study
  /\ resp'.ret = RetSession =>
       /\ Len(propCards') >= 1
       /\ studyCards' = propCards'

\* C28: a study session exists only over at least one card: when the listing
\* of the deck's cards gives the page nothing (no deck, or no cards) the page
\* mounts no study component, and no control of a session can be used unless
\* a session over at least one card was mounted.
C28_NoSessionWithoutCards ==
  /\ [][StudyPageStep]_vars
  /\ [](ENABLED SessionEvent => Len(propCards) >= 1)
  /\ [](resp.ret = RetNoCards => ~ENABLED SessionEvent)

\* the page answered with the no-cards notice and no session is open
C28_Witness ==
  /\ resp.op = "studyPage"
  /\ resp.ret = RetNoCards
  /\ ~SessionOpen
  /\ ~ENABLED SessionEvent

\* ---- C29
\* a step that counts a mark, of either kind
CountsAMark ==
  \/ correctCount' > correctCount
  \/ incorrectCount' > incorrectCount

\* C29: whatever the user does with the buttons and the keys of the study
\* component, a card is marked correct or incorrect only while it is revealed.
C29_MarksOnlyWhileRevealed == [][CountsAMark => isFlipped]_vars

\* marks of both kinds were made and the session moved on to a hidden card
C29_Witness ==
  /\ correctCount > 0
  /\ incorrectCount > 0
  /\ ~isFlipped
  /\ currentIndex > 0

\* ---- C30
\* no step changes the owner of a deck or the deck of a card
OwnershipKept ==
  /\ \A d \in decks, e \in decks' : d.id = e.id => e.userId = d.userId
  /\ \A c \in cards, e \in cards' : c.id = e.id => e.deckId = c.deckId

\* a row that appears in a step has an id that was never handed out before
IdsNeverReused ==
  /\ deckSeq' >= deckSeq
  /\ cardSeq' >= cardSeq
  /\ \A e \in decks' : (\A d \in decks : d.id # e.id) => e.id > deckSeq
  /\ \A e \in cards' : (\A c \in cards : c.id # e.id) => e.id > cardSeq

\* operations that check the ownership of a deck, resp. of a card, and then
\* write in a later statement
DeckCheckedOps == {"updateDeck", "deleteDeck", "createCard", "deleteAllCardsInDeck"}
CardCheckedOps == {"updateCard", "deleteCard"}

\* the row a request checked is, when the request writes, the caller's or gone
CheckedRowStillOwned ==
  \A p \in Procs :
    /\ (proc[p].op \in DeckCheckedOps /\ proc[p].pc = "write") =>
         \A d \in decks : d.id = proc[p].id => d.userId = proc[p].user
    /\ (proc[p].op \in CardCheckedOps /\ proc[p].pc = "write") =>
         \A c \in cards : c.id = proc[p].id =>
           \E d \in decks : d.id = c.deckId /\ d.userId = proc[p].user

\* C30: ownership never changes: no operation changes the owner of a deck or
\* the deck of a card, and the id of a deleted deck or card is never given to a
\* new row; so the row a request found to be the caller's is, at every later
\* write of that request, still the caller's or no longer there.
C30_OwnershipImmutable ==
  /\ [][OwnershipKept /\ IdsNeverReused]_vars
  /\ []CheckedRowStillOwned

\* an update that passed its ownership check waits to write, its deck has been
\* deleted and another deck is in the store
C30_Witness ==
  \E p \in Procs :
    /\ At(p, "updateDeck", "write")
    /\ \A d \in decks : d.id # proc[p].id
    /\ decks # {}

====
